---- MODULE Spec2Model ----
(***************************************************************************)
(* Model of src/Web-Scrapping.py: a linear pipeline                        *)
(*   speech-engine init -> fetch -> extract table -> export -> search loop *)
(* Text is modelled as a sequence of one-character strings, so that        *)
(* strip(), lower(), re.escape() and the regular-expression search are     *)
(* computed character by character.                                        *)
(***************************************************************************)
EXTENDS Integers, Sequences, FiniteSets, TLC

VARIABLES
    pc,          \* position in the script
    res,         \* <<>> or <<outcome of requests.get>>, until the page is parsed
    page,        \* <<>> or <<the table element the rows were read from>>
    df,          \* <<>> or <<the DataFrame>>
    files,       \* export files written to the working directory
    search,      \* the stripped input line of the last loop iteration
    result,      \* <<>> or <<rows selected by the most recent filter>>
    evaluated,   \* whether the last loop iteration evaluated the filter
    console,     \* lines printed by the last step
    voiced,      \* how many of them the speech engine also said aloud
    exitStatus,  \* <<>> while running, else <<process exit status>>
    uncaught,    \* exception that ended the process, "none" otherwise
    gets         \* number of requests.get calls made

vars == <<pc, res, page, df, files, search, result, evaluated, console, voiced,
          exitStatus, uncaught, gets>>

\* ------------------------------------------------------------------ bounds
MaxRows == 2        \* data rows (<tr> after the first) of a fetched table
MaxCells == 2       \* cells of one <tr>

\* ------------------------------------------------------------ text helpers
RECURSIVE SeqsUpTo(_, _)
SeqsUpTo(S, n) ==
    IF n = 0 THEN {<<>>}
    ELSE LET shorter == SeqsUpTo(S, n - 1)
         IN  shorter \cup {Append(s, x) : s \in {t \in shorter : Len(t) = n - 1}, x \in S}

\* str.lower() on one character (the letters the inputs use)
LowerChar(c) ==
    CASE c = "A" -> "a"
      [] c = "B" -> "b"
      [] c = "E" -> "e"
      [] c = "X" -> "x"
      [] c = "I" -> "i"
      [] c = "T" -> "t"
      [] OTHER   -> c

Lower(s) == [i \in 1..Len(s) |-> LowerChar(s[i])]

IsSpace(c) == c \in {" ", "\t", "\n"}

RECURSIVE LStrip(_)
LStrip(s) == IF s # <<>> /\ IsSpace(Head(s)) THEN LStrip(Tail(s)) ELSE s

RECURSIVE RStrip(_)
RStrip(s) ==
    IF s # <<>> /\ IsSpace(s[Len(s)]) THEN RStrip(SubSeq(s, 1, Len(s) - 1)) ELSE s

\* str.strip()
Strip(s) == RStrip(LStrip(s))

\* ------------------------------------------------------- regular expressions
\* characters re.escape() prefixes with a backslash
SpecialChars == {".", "$", "(", ")", "[", "]", "{", "}", "?", "*", "+", "-",
                 "|", "^", "\\", "&", "~", "#", " ", "\t", "\n"}

\* re.escape() left out: the query is used as the pattern itself
Escape_NoEscape(s) == s

RECURSIVE Escape(_)
Escape(s) ==
    IF s = <<>> THEN <<>>
    ELSE (IF Head(s) \in SpecialChars THEN <<"\\", Head(s)>> ELSE <<Head(s)>>)
         \o Escape(Tail(s))

\* The pattern as a sequence of tokens: a backslash makes the next character
\* a literal, "." is any character but newline, "$" is the end of the text.
RECURSIVE Tokens(_)
Tokens(p) ==
    IF p = <<>> THEN <<>>
    ELSE IF Head(p) = "\\" /\ Len(p) >= 2
         THEN <<[t |-> "lit", c |-> p[2]]>> \o Tokens(SubSeq(p, 3, Len(p)))
    ELSE IF Head(p) = "." THEN <<[t |-> "any", c |-> "."]>> \o Tokens(Tail(p))
    ELSE IF Head(p) = "$" THEN <<[t |-> "end", c |-> "$"]>> \o Tokens(Tail(p))
    ELSE <<[t |-> "lit", c |-> Head(p)]>> \o Tokens(Tail(p))

\* do the tokens toks[k..] match the text s starting at position i
RECURSIVE MatchAt(_, _, _, _)
MatchAt(toks, k, s, i) ==
    IF k > Len(toks) THEN TRUE
    ELSE LET tk == toks[k] IN
         CASE tk.t = "end" -> i = Len(s) + 1 /\ MatchAt(toks, k + 1, s, i)
           [] tk.t = "any" -> i <= Len(s) /\ s[i] # "\n" /\ MatchAt(toks, k + 1, s, i + 1)
           [] OTHER        -> i <= Len(s) /\ s[i] = tk.c /\ MatchAt(toks, k + 1, s, i + 1)

\* re.search(pattern, s) is not None
ReSearch(p, s) == \E i \in 1..(Len(s) + 1) : MatchAt(Tokens(p), 1, s, i)

\* ------------------------------------------------------------- the web page
\* A parsed page: whether a <table class="wikitable"> exists and, for the
\* first such table, its <tr> rows, each a sequence of cells (tag, text).
Cell(tag, text) == [tag |-> tag, text |-> text]

HeaderRowCells == {Cell("th", <<" ", "A", ".">>), Cell("th", <<"B">>), Cell("td", <<"x">>)}
DataRowCells == {Cell("th", <<" ", "A", ".">>), Cell("td", <<>>)}

NoTablePage == [hasTable |-> FALSE, trs |-> <<>>]

Pages ==
    {NoTablePage, [hasTable |-> TRUE, trs |-> <<>>]}
    \cup {[hasTable |-> TRUE, trs |-> <<h>> \o d] :
            h \in SeqsUpTo(HeaderRowCells, MaxCells),
            d \in SeqsUpTo(SeqsUpTo(DataRowCells, MaxCells), MaxRows)}

\* HTTP status codes a response may carry
StatusCodes == {200, 304, 404, 503}

\* outcomes of requests.get(): a response, or an exception
Responses ==
    {[kind |-> "response", status |-> st, page |-> p] : st \in StatusCodes, p \in Pages}
    \cup {[kind |-> k, status |-> 0, page |-> NoTablePage] : k \in {"ConnectionError", "Timeout"}}

\* Response.raise_for_status(): raises HTTPError for 4xx and 5xx
RaiseForStatus_Never(st) == FALSE

RaiseForStatus(st) == 400 <= st /\ st < 600

\* ------------------------------------------------------------ the extractor
CellTexts(cells) == [i \in 1..Len(cells) |-> Strip(cells[i].text)]

IsTh(c) == c.tag = "th"

\* [th.text.strip() for th in table.find_all("tr")[0].find_all("th")]
ExtractHeaders(trs) == CellTexts(SelectSeq(trs[1], IsTh))

\* the row loop without the len(cols) >= len(headers) test
RECURSIVE ExtractRows_NoLengthTest(_, _)
ExtractRows_NoLengthTest(trs, n) ==
    IF trs = <<>> THEN <<>>
    ELSE LET cols == CellTexts(Head(trs))
         IN  <<SubSeq(cols, 1, IF Len(cols) < n THEN Len(cols) ELSE n)>>
             \o ExtractRows_NoLengthTest(Tail(trs), n)

\* the row loop over table.find_all("tr")[1:], n = len(headers)
RECURSIVE ExtractRows(_, _)
ExtractRows(trs, n) ==
    IF trs = <<>> THEN <<>>
    ELSE LET cols == CellTexts(Head(trs))
         IN  (IF Len(cols) >= n THEN <<SubSeq(cols, 1, n)>> ELSE <<>>)
             \o ExtractRows(Tail(trs), n)

\* pd.DataFrame(rows, columns=headers)
DataFrame(rows, headers) == [columns |-> headers, data |-> rows]

\* ---------------------------------------------------------------- the filter
\* positions of the columns labelled name: df[name] is a Series when there is
\* one, a DataFrame when there are several
Labelled(d, name) == {i \in 1..Len(d.columns) : d.columns[i] = name}

\* df[df[name_col].str.lower().str.contains(pattern, na=False)], name_col
\* labelling the single column 1
Filter(d, pattern) ==
    LET Hit(row) == ReSearch(pattern, Lower(row[1]))
    IN  SelectSeq(d.data, Hit)

\* the loop assigns the selection to result and leaves df alone
TableAfterFilter_Narrowed(d, r) == [d EXCEPT !.data = r]

TableAfterFilter(d, r) == d

\* ------------------------------------------------------------------ console
\* a line written with print()
Line(kind, args, n) == [kind |-> kind, args |-> args, n |-> n, say |-> FALSE]

\* speak(text): print(text), then engine.say / runAndWait inside
\* try / except Exception: pass
Speak(kind, args, n) == <<[kind |-> kind, args |-> args, n |-> n, say |-> TRUE]>>

IsSaid(l) == l.say

\* The engine may raise at any speak() call of a step; the exception is
\* swallowed, so a step voices some prefix of the lines it speaks.
Voiced(lines) == 0..Len(SelectSeq(lines, IsSaid))

HeadRows == 5

Min(a, b) == IF a < b THEN a ELSE b

\* values of row under the label col (one value unless the label repeats)
Under(d, row, col) ==
    LET P == Labelled(d, col)
    IN  [k \in 1..Cardinality(P) |->
            row[CHOOSE i \in P : Cardinality({j \in P : j < i}) = k - 1]]

\* the lines of a successful search: the first five rows, the first match
\* announced column by column, the total
HitLines(d, r, s) ==
    <<Line("table", <<>>, Min(HeadRows, Len(r)))>>
    \o Speak("found", <<Under(d, r[1], d.columns[1])>>, 0)
    \o [k \in 1..(Len(d.columns) - 1) |->
            Speak("field", <<<<d.columns[k + 1]>>, Under(d, r[1], d.columns[k + 1])>>, 0)[1]]
    \o Speak("complete", <<<<s>>>>, Len(r))

\* ------------------------------------------------------------------- inputs
ExitWord == <<"e", "x", "i", "t">>

Inputs ==
    { <<>>, <<" ">>, ExitWord, <<" ", "E", "x", "I", "T", " ">>,
      <<"e", "x", "i", "t", "s">>, <<"a">>, <<" ", "A", ".">>, <<".", ".">>, <<"$">> }

\* the loop body without the "if not search" test
Branch_NoEmptyTest(s) ==
    IF Lower(s) = ExitWord THEN "exit" ELSE "filter"

\* which branch of the loop body a stripped input line takes
Branch(s) ==
    IF Lower(s) = ExitWord THEN "exit" ELSE IF s = <<>> THEN "empty" ELSE "filter"

\* ------------------------------------------------------------------ actions
Init ==
    /\ pc = "init"
    /\ res = <<>>
    /\ page = <<>>
    /\ df = <<>>
    /\ files = {}
    /\ search = <<>>
    /\ result = <<>>
    /\ evaluated = FALSE
    /\ console = <<>>
    /\ voiced = 0
    /\ exitStatus = <<>>
    /\ uncaught = "none"
    /\ gets = 0

\* an exception nobody catches: traceback, exit status 1
Raise(exc) ==
    /\ pc' = "crashed"
    /\ uncaught' = exc
    /\ exitStatus' = <<1>>

\* exit(1)
Exit1 ==
    /\ pc' = "exited"
    /\ exitStatus' = <<1>>
    /\ UNCHANGED uncaught

\* engine = pyttsx3.init(), which raises when no speech driver can be loaded
EngineInit ==
    /\ pc = "init"
    /\ \E available \in BOOLEAN :
          IF available
          THEN pc' = "fetch" /\ UNCHANGED <<uncaught, exitStatus>>
          ELSE Raise("pyttsx3.init")
    /\ UNCHANGED <<res, page, df, files, search, result, evaluated, console, voiced, gets>>

\* speak("Starting data fetch..."); requests.get; raise_for_status
Fetch ==
    /\ pc = "fetch"
    /\ gets' = gets + 1
    /\ \E r \in Responses :
          /\ res' = <<r>>
          /\ IF r.kind # "response" \/ RaiseForStatus(r.status)
             THEN /\ console' = Speak("starting", <<>>, 0)
                                \o Speak("fatal-connect", <<>>, 0)
                  /\ Exit1
             ELSE /\ console' = Speak("starting", <<>>, 0)
                  /\ pc' = "extract"
                  /\ UNCHANGED <<uncaught, exitStatus>>
    /\ voiced' \in Voiced(console')
    /\ UNCHANGED <<page, df, files, search, result, evaluated>>

\* soup.find("table", class_="wikitable"), headers, rows, DataFrame, column list
Extract ==
    /\ pc = "extract"
    /\ LET p == res[1].page IN
       IF ~p.hasTable
       THEN /\ console' = Speak("error-no-table", <<>>, 0)
            /\ Exit1
            /\ UNCHANGED <<res, page, df>>
       ELSE IF p.trs = <<>>
       THEN /\ console' = Speak("error-headers", <<>>, 0)
            /\ Exit1
            /\ UNCHANGED <<res, page, df>>
       ELSE LET headers == ExtractHeaders(p.trs)
                rows == ExtractRows(Tail(p.trs), Len(headers))
            IN  /\ df' = <<DataFrame(rows, headers)>>
                /\ console' = <<Line("columns", <<headers>>, Len(headers))>>
                /\ page' = <<p.trs>>
                /\ res' = <<>>
                /\ pc' = "export"
                /\ UNCHANGED <<uncaught, exitStatus>>
    /\ voiced' \in Voiced(console')
    /\ UNCHANGED <<files, search, result, evaluated, gets>>

\* df.to_csv; df.to_excel; any exception of either is reported as a warning
Export ==
    /\ pc = "export"
    /\ \E outcome \in {"saved", "csv-raises", "xlsx-raises"} :
          /\ files' = CASE outcome = "saved" -> {"csv", "xlsx"}
                        [] outcome = "xlsx-raises" -> {"csv"}
                        [] OTHER -> {}
          /\ console' = IF outcome = "saved"
                        THEN Speak("saved", <<>>, 0)
                        ELSE Speak("warning-save", <<>>, 0)
    /\ voiced' \in Voiced(console')
    /\ pc' = "begin"
    /\ page' = <<>>
    /\ UNCHANGED <<res, df, search, result, evaluated, exitStatus, uncaught, gets>>

\* name_col = df.columns[0]; speak("Starting interactive search...")
BeginSearch ==
    /\ pc = "begin"
    /\ IF df[1].columns = <<>>
       THEN /\ Raise("IndexError")
            /\ console' = <<>>
       ELSE /\ console' = Speak("searching-on", <<<<df[1].columns[1]>>>>, 0)
            /\ pc' = "await"
            /\ UNCHANGED <<uncaught, exitStatus>>
    /\ voiced' \in Voiced(console')
    /\ UNCHANGED <<res, page, df, files, search, result, evaluated, gets>>

\* one iteration of the while loop: input() returns a line, or raises
\* EOFError when standard input has ended
Query ==
    /\ pc = "await"
    /\ \/ \E line \in Inputs :
            LET s == Strip(line)
                b == Branch(s)
                d == df[1]
            IN  /\ search' = s
                /\ CASE b = "exit" ->
                        /\ console' = Speak("goodbye", <<>>, 0)
                        /\ pc' = "done"
                        /\ exitStatus' = <<0>>
                        /\ evaluated' = FALSE
                        /\ UNCHANGED <<df, result, uncaught>>
                     [] b = "empty" ->
                        /\ console' = Speak("please-enter", <<>>, 0)
                        /\ evaluated' = FALSE
                        /\ UNCHANGED <<pc, df, result, exitStatus, uncaught>>
                     [] OTHER ->
                        IF Cardinality(Labelled(d, d.columns[1])) > 1
                        THEN \* df[name_col] is a DataFrame: no attribute 'str'
                             /\ Raise("AttributeError")
                             /\ evaluated' = FALSE
                             /\ console' = <<>>
                             /\ UNCHANGED <<df, result>>
                        ELSE LET r == Filter(d, Escape(Lower(s))) IN
                             /\ evaluated' = TRUE
                             /\ result' = <<r>>
                             /\ df' = <<TableAfterFilter(d, r)>>
                             /\ console' = IF r # <<>>
                                           THEN HitLines(d, r, s)
                                           ELSE Speak("no-match", <<<<s>>>>, 0)
                             /\ UNCHANGED <<pc, exitStatus, uncaught>>
       \/ /\ Raise("EOFError")
          /\ evaluated' = FALSE
          /\ console' = <<>>
          /\ UNCHANGED <<df, search, result>>
    /\ voiced' \in Voiced(console')
    /\ UNCHANGED <<res, page, files, gets>>

Next == EngineInit \/ Fetch \/ Extract \/ Export \/ BeginSearch \/ Query

Spec == Init /\ [][Next]_vars

\* ------------------------------------------------------------------- claims
\* n occurs in h as a run of consecutive characters
IsSubstring(n, h) ==
    \E i \in 0..(Len(h) - Len(n)) : SubSeq(h, i + 1, i + Len(n)) = n

\* the rows of data, in order, whose first cell holds q, both lower-cased
RECURSIVE LiteralMatches(_, _)
LiteralMatches(data, q) ==
    IF data = <<>> THEN <<>>
    ELSE (IF IsSubstring(Lower(q), Lower(Head(data)[1])) THEN <<Head(data)>> ELSE <<>>)
         \o LiteralMatches(Tail(data), q)

\* C1: whenever the loop has computed a match set for a query, it is exactly
\* the rows of the table, in their original order, whose first-column value
\* lower-cased contains the lower-cased query as literal text; a row whose
\* first-column value is empty is never selected.
C1_FilterIsLiteralSubstring ==
    (pc = "await" /\ evaluated) =>
        /\ search # <<>>
        /\ Lower(search) # ExitWord
        /\ result = <<LiteralMatches(df[1].data, search)>>
        /\ \A k \in 1..Len(result[1]) : result[1][k][1] # <<>>

C1_Witness ==
    /\ pc = "await"
    /\ evaluated
    /\ search = <<"A", ".">>
    /\ Len(df[1].data) = 2
    /\ df[1].data[1][1] = <<>>
    /\ result = <<<<df[1].data[2]>>>>

\* indices of the source rows that have at least n cells
Wide(src, n) == {i \in 1..Len(src) : Len(src[i]) >= n}

\* the k-th smallest element of a set of indices
Nth(I, k) == CHOOSE i \in I : Cardinality({j \in I : j < i}) = k - 1

\* C2: with N header cells, every stored row has exactly N cells; the stored
\* rows are the source rows with at least N cells, each cut to its first N
\* cells, in document order (rows with fewer than N cells are dropped).
C2_RowsHaveHeaderWidth ==
    /\ df # <<>> => \A k \in 1..Len(df[1].data) : Len(df[1].data[k]) = Len(df[1].columns)
    /\ pc = "export" =>
          LET src == Tail(page[1])
              n == Len(df[1].columns)
              I == Wide(src, n)
          IN  /\ Len(df[1].data) = Cardinality(I)
              /\ \A k \in 1..Cardinality(I) :
                    df[1].data[k] = SubSeq(CellTexts(src[Nth(I, k)]), 1, n)

C2_Witness ==
    /\ pc = "export"
    /\ Len(df[1].columns) = 1
    /\ Len(page[1]) = 3
    /\ Len(page[1][2]) = 0
    /\ Len(page[1][3]) = 2
    /\ Len(df[1].data) = 1

\* the step read a line (input() returned)
LineRead == pc = "await" /\ uncaught' # "EOFError"

\* C3: the loop leaves Awaiting Input for Terminated exactly on an input line
\* that equals "exit" whatever its case, evaluating no filter (the last
\* selection stays as it was); on every other input line it is still
\* Awaiting Input.
C3_ExitIffExitWord ==
    [][LineRead =>
          /\ (pc' = "done") <=> (Lower(search') = ExitWord)
          /\ pc' = "done" => ~evaluated' /\ result' = result
          /\ Lower(search') # ExitWord => pc' = "await"]_vars

\* C4: an input line that is empty after trimming evaluates no filter (the
\* last selection stays as it was), announces neither a match nor a
\* no-match, and leaves the loop Awaiting Input.
C4_EmptyInputReprompts ==
    [][(LineRead /\ search' = <<>>) =>
          /\ pc' = "await"
          /\ ~evaluated'
          /\ result' = result
          /\ console' = Speak("please-enter", <<>>, 0)
          /\ df' = df
          /\ exitStatus' = <<>>]_vars

C4_Witness ==
    /\ pc = "await"
    /\ search = <<>>
    /\ console = Speak("please-enter", <<>>, 0)
    /\ ~evaluated
    /\ result # <<>>

\* C5: a failure of the speech pathway never propagates: no exception raised
\* by the speech engine ends the program.
C5_SpeechFailureDiscarded ==
    uncaught \notin {"pyttsx3.init", "engine.say", "engine.runAndWait"}

\* the fetch has been made and it failed with an exception or a status in S
FetchFailed(S) ==
    /\ res # <<>>
    /\ res[1].kind # "response" \/ res[1].status \in S

\* what a fatal fetch failure leaves behind
FetchFatal ==
    /\ pc = "exited"
    /\ exitStatus = <<1>>
    /\ console[Len(console)].kind = "fatal-connect"
    /\ gets = 1
    /\ page = <<>>
    /\ df = <<>>
    /\ files = {}
    /\ ~evaluated

\* C6 as stated: one GET; a connection error, a timeout or any status outside
\* 200..299 ends the program with a non-zero status after a diagnostic, with
\* nothing parsed, no file written and the loop never entered.
C6_AnyNon2xxIsFatal ==
    /\ gets <= 1
    /\ FetchFailed(100..199 \cup 300..599) => FetchFatal

\* C6 amended: the same for a connection error, a timeout or a 4xx / 5xx
\* status.
C6_ErrorStatusIsFatal ==
    /\ gets <= 1
    /\ pc \in {"extract", "export", "begin", "await", "done", "exited"} => gets = 1
    /\ FetchFailed(400..599) => FetchFatal

C6_Witness ==
    /\ res # <<>>
    /\ res[1].kind = "response"
    /\ res[1].status = 404
    /\ pc = "exited"

\* C7: a failed export is reported as a warning and the program goes on into
\* the search loop, Awaiting Input, with the table unchanged.
C7_ExportFailureNonFatal ==
    [][/\ pc = "export" /\ files' # {"csv", "xlsx"} =>
            /\ pc' = "begin"
            /\ console' = Speak("warning-save", <<>>, 0)
            /\ df' = df
       /\ pc = "begin" /\ files # {"csv", "xlsx"} =>
            /\ pc' = "await"
            /\ df' = df]_vars

\* C8: a page without the table, or a table whose first row is missing or
\* has no header cell, ends the program with its diagnostic and a non-zero
\* status before any table is built, any file written or the loop entered.
C8_ExtractionFailureFatal ==
    /\ df # <<>> => df[1].columns # <<>>
    /\ (pc = "exited" /\ ~FetchFailed(400..599)) =>
          /\ console[1].kind \in {"error-no-table", "error-headers"}
          /\ exitStatus = <<1>>
          /\ df = <<>>
          /\ files = {}
    /\ uncaught # "IndexError"

\* C9: no two columns of the stored table have the same name.
C9_ColumnNamesUnique ==
    df # <<>> =>
        \A i, j \in 1..Len(df[1].columns) :
            df[1].columns[i] = df[1].columns[j] => i = j

\* C10: once the loop has started no query changes the table, and the result
\* of a query is computed from that table and the query alone.
C10_TableNeverMutated ==
    [][pc = "await" =>
          /\ df' = df
          /\ evaluated' => result' = <<LiteralMatches(df[1].data, search')>>]_vars

C10_Witness ==
    /\ pc = "await"
    /\ evaluated
    /\ Len(df[1].data) = 2
    /\ Len(result[1]) = 1

====
